---- MODULE Spec2Model ----
(***************************************************************************)
(* A model of scripts/sony_liv.py: the listing scrape (get_channel_links), *)
(* the per-channel validator (process_channel), the thread pool that runs  *)
(* it (get_working_channels), the playlist writer (generate_m3u) and the   *)
(* script's entry point.                                                   *)
(*                                                                         *)
(* Text is modelled by what the code does with it.  A URL or href is a     *)
(* sequence of tokens (<<"http:", "/", "x.m3u8">>), so that startswith,    *)
(* the substring test, concatenation and the "\/" unescaping are computed. *)
(* A channel name is a sequence of code points, compared as Python         *)
(* compares str.  A value read from JSON is a record [t, v] carrying its   *)
(* Python type.                                                            *)
(***************************************************************************)
EXTENDS Naturals, Sequences, FiniteSets

(* ------------------------------ bounds -------------------------------- *)

\* Longest listing page (number of <a href> elements) the open web serves.
MaxLinks == 3

\* Number of channel links on the crowded listing page (more than MAX_THREADS).
CrowdSize == 11

(* ------------------------- program constants -------------------------- *)

MAX_THREADS == 10

\* "https://allinonereborn.xyz/sony/", the prefix of line 58.
BASE_PREFIX == <<"https:", "//allinonereborn.xyz/sony/">>

\* 'ptest.php', the player-page marker of line 51.
PLAYER_MARKER == "ptest.php"

\* "Sony Liv Channel", the placeholder name of line 53, as code points.
DEFAULT_NAME == <<83, 111, 110, 121, 32, 76, 105, 118, 32, 67, 104, 97, 110, 110, 101, 108>>

(* ------------------------------ strings ------------------------------- *)

\* Tokens whose text begins with "http".
HttpTokens == {"http:", "https:"}

\* str.startswith('http') on a token sequence.
StartsWithHttp(s) == Len(s) > 0 /\ s[1] \in HttpTokens

\* 'ptest.php' in href.
ContainsMarker(href) == \E i \in 1..Len(href) : href[i] = PLAYER_MARKER

\* str.replace(r'\/', '/').
Unescape(s) == [i \in 1..Len(s) |-> IF s[i] = "\\/" THEN "/" ELSE s[i]]

\* Code points str.strip() removes (space, tab, newline).
Whitespace == {32, 9, 10}

RECURSIVE LStrip(_)
LStrip(s) == IF s # <<>> /\ Head(s) \in Whitespace THEN LStrip(Tail(s)) ELSE s

RECURSIVE RStrip(_)
RStrip(s) ==
    IF s # <<>> /\ s[Len(s)] \in Whitespace THEN RStrip(SubSeq(s, 1, Len(s) - 1)) ELSE s

\* link.get_text(strip=True) of a link holding one text node.
Strip(s) == RStrip(LStrip(s))

\* Python's str comparison a < b: lexicographic on code points.
RECURSIVE StrLess(_, _)
StrLess(a, b) ==
    IF b = <<>> THEN FALSE
    ELSE IF a = <<>> THEN TRUE
    ELSE IF Head(a) # Head(b) THEN Head(a) < Head(b)
    ELSE StrLess(Tail(a), Tail(b))

(* --------------------------- Python values ---------------------------- *)

Str(s) == [t |-> "str", v |-> s]
None == [t |-> "none", v |-> <<>>]
Num(s) == [t |-> "num", v |-> s]

\* Python truthiness of a JSON value.
Truthy(x) ==
    CASE x.t = "none" -> FALSE
      [] x.t = "str" -> x.v # <<>>
      [] OTHER -> x.v # <<"0">>

\* Python's  a or b.
Or(a, b) == IF Truthy(a) THEN a ELSE b

(* --------------------------- get_channel_links ------------------------ *)

\* Lines 46-60: the candidates of the links, in page order, duplicates kept.
RECURSIVE channel_pages(_)
channel_pages(links) ==
    IF links = <<>> THEN <<>>
    ELSE LET link == Head(links)
             href == link.href
             text == Strip(link.text)
             name == IF text = <<>> THEN DEFAULT_NAME ELSE text
             full_url == IF StartsWithHttp(href) THEN href ELSE BASE_PREFIX \o href
         IN  IF ContainsMarker(href)
             THEN <<[name |-> name, page_url |-> full_url]>> \o channel_pages(Tail(links))
             ELSE channel_pages(Tail(links))

\* Mutant of DictSet: an old key keeps its first value.
DictSet_first_wins(d, v) ==
    IF \E i \in 1..Len(d) : d[i].page_url = v.page_url THEN d ELSE Append(d, v)

\* dict.__setitem__ on an insertion-ordered dict held as a sequence of values
\* keyed by page_url: a new key is appended, an old key keeps its place and
\* takes the new value.
DictSet(d, v) ==
    IF \E i \in 1..Len(d) : d[i].page_url = v.page_url
    THEN [i \in 1..Len(d) |-> IF d[i].page_url = v.page_url THEN v ELSE d[i]]
    ELSE Append(d, v)

\* Line 63: {v['page_url']: v for v in channel_pages}.values().
RECURSIVE DictOf(_, _)
DictOf(d, vs) == IF vs = <<>> THEN d ELSE DictOf(DictSet(d, Head(vs)), Tail(vs))

unique_pages(cps) == DictOf(<<>>, cps)

\* Lines 37-69: the value get_channel_links returns for a listing response.
links_result(resp) ==
    IF resp.kind = "raise" THEN <<>>
    ELSE IF resp.status >= 400 THEN <<>>
    ELSE unique_pages(channel_pages(resp.links))

(* ------------------------------ the web ------------------------------- *)

\* A request that raised (timeout, connection error) has no status.
Raised == 0

RaisedResp == [kind |-> "raise", status |-> Raised, links |-> <<>>]

\* Stream and logo addresses found in detail pages.
U1 == <<"https:", "/", "a.m3u8">>
U2 == <<"http:", "/", "b.m3u8">>
U2Escaped == <<"http:", "\\/", "b.m3u8">>
G1 == <<"http:", "/", "l.png">>
G1Escaped == <<"http:", "\\/", "l.png">>

\* What lines 92-110 read from a detail page: the channelData assignment
\* (cd: absent, not JSON, or a dict with these keys) and the first match of
\* each fallback regex in the raw text (None when it matches nothing).
Body(cd, m3u8, logo, image, poster, raw_m3u8, raw_logo) ==
    [cd |-> cd, m3u8 |-> m3u8, logo |-> logo, image |-> image, poster |-> poster,
     raw_m3u8 |-> raw_m3u8, raw_logo |-> raw_logo]

BodyJson == Body("dict", Str(U1), Str(G1), None, None, Str(U1), Str(G1))
BodyPoster == Body("dict", Str(U2), None, Str(<<>>), Str(G1), Str(U2Escaped), Str(<<>>))
BodyRegex == Body("none", None, None, None, None, Str(U2Escaped), None)
BodyBadJson == Body("invalid", None, None, None, None, Str(U1), Str(G1Escaped))
BodyNoStream == Body("none", None, None, None, None, None, None)
BodyRtmp == Body("dict", Str(<<"rtmp:", "/", "c">>), None, None, None,
                 Str(<<"rtmp:", "/", "c">>), None)
BodyNumeric == Body("dict", Num(<<"5">>), Str(G1), None, None, None, Str(G1))

Bodies == {BodyJson, BodyPoster, BodyRegex, BodyBadJson, BodyNoStream, BodyRtmp, BodyNumeric}

DetailResp(status, body) == [kind |-> "resp", status |-> status, body |-> body]
DetailRaise == [kind |-> "raise", status |-> Raised, body |-> BodyNoStream]

DetailOutcomes ==
    {DetailRaise, DetailResp(404, BodyNoStream), DetailResp(204, BodyJson)}
        \cup {DetailResp(200, b) : b \in Bodies}

\* Outcomes of a HEAD or GET probe: it raised, or answered with a status.
ProbeOutcomes == {Raised, 200, 302, 404}

\* The hrefs and texts of the links the open web's listing page is made of.
Hrefs ==
    { <<"ptest.php", "?id=1">>,
      <<"ptest.php", "?id=2">>,
      <<"https:", "//allinonereborn.xyz/sony/", "ptest.php", "?id=1">>,
      <<"index.html">> }

Texts == { <<>>, <<32>>, <<65>>, <<32, 97, 32>> }

Links == [href : Hrefs, text : Texts]

SeqsUpTo(S, n) == UNION {[1..k -> S] : k \in 0..n}

ListingResp(status, links) == [kind |-> "resp", status |-> status, links |-> links]

IdTokens == <<"?id=1", "?id=2", "?id=3", "?id=4", "?id=5", "?id=6", "?id=7", "?id=8",
              "?id=9", "?id=10", "?id=11", "?id=12", "?id=13", "?id=14", "?id=15", "?id=16">>

\* The web the script usually meets ("open"): any listing of at most MaxLinks
\* links, any detail page, any probe outcome.  The "crowded" web: a listing
\* of CrowdSize channels that are all off air (404), or on another day a
\* listing of the one channel on air, whose server rejects HEAD and serves
\* GET.  The "quiet" web: three channels, plain pages.
CrowdedLinks ==
    [k \in 1..CrowdSize |-> [href |-> <<"ptest.php", IdTokens[k]>>, text |-> <<65>>]]

OnAirLinks == <<[href |-> <<"ptest.php", "?id=live">>, text |-> <<65>>]>>

QuietLinks ==
    { [href |-> <<"ptest.php", "?id=1">>, text |-> <<65>>],
      [href |-> <<"ptest.php", "?id=2">>, text |-> <<>>],
      [href |-> <<"ptest.php", "?id=3">>, text |-> <<97>>] }

\* What session.get(BASE_URL) may answer.
ListingOutcomes(w) ==
    CASE w = "open" ->
            {RaisedResp, ListingResp(500, <<>>)}
                \cup {ListingResp(200, l) : l \in SeqsUpTo(Links, MaxLinks)}
      [] w = "quiet" ->
            {RaisedResp} \cup {ListingResp(200, l) : l \in SeqsUpTo(QuietLinks, MaxLinks)}
      [] OTHER -> {RaisedResp, ListingResp(200, CrowdedLinks), ListingResp(200, OnAirLinks)}

OnAir(w) ==
    IF w = "crowded"
    THEN {BASE_PREFIX \o <<"ptest.php", "?id=live">>}
    ELSE {BASE_PREFIX \o <<"ptest.php", "?id=1">>, BASE_PREFIX \o <<"ptest.php", "?id=2">>}

\* What session.get(page_url) may answer.
DetailOutcomesOf(w, page_url) ==
    CASE w = "open" -> IF page_url \in OnAir(w) THEN DetailOutcomes ELSE {DetailRaise}
      [] w = "quiet" -> {DetailRaise, DetailResp(200, BodyRegex), DetailResp(200, BodyNoStream)}
      [] OTHER -> IF page_url \in OnAir(w) THEN {DetailResp(200, BodyRegex)}
                  ELSE {DetailResp(404, BodyNoStream)}

\* What a HEAD or GET probe of a stream URL may answer.
ProbeOutcomesOf(w, kind) ==
    CASE w = "open" -> ProbeOutcomes
      [] w = "quiet" -> {Raised, 200, 404}
      [] OTHER -> IF kind = "head" THEN {Raised} ELSE {200}

(* ------------------------------- state -------------------------------- *)

VARIABLES
    web,             \* which web the run meets: "open", "crowded" or "quiet"
    main_pc,         \* where the main thread is
    response,        \* get_channel_links: the listing response, until the pool starts
    pages,           \* get_working_channels: pages
    submitted,       \* number of pages submitted to the executor (line 153)
    queue,           \* the executor's work queue: indices of pages, FIFO
    num_threads,     \* worker threads the executor has started
    pc,              \* per page: where its process_channel call is
    extracted,       \* per page: <<[m3u8, logo]>> once lines 88-110 have run
    trace,           \* per page: the requests process_channel has made, with outcomes
    result,          \* per page: <<>> (None) or <<channel>>, the future's result
    completed_count, \* line 155
    valid_channels,  \* line 147
    channels,        \* __main__: channels (the list generate_m3u sorts in place)
    file,            \* the content of OUTPUT_FILE
    generated,       \* whether generate_m3u has been called
    report           \* the outcome message printed by __main__ / generate_m3u

vars == <<web, main_pc, response, pages, submitted, queue, num_threads, pc, extracted, trace,
          result, completed_count, valid_channels, channels, file, generated, report>>

poolVars == <<submitted, queue, num_threads, pc, extracted, trace, result,
              completed_count, valid_channels>>

mainVars == <<channels, file, generated, report>>

\* OUTPUT_FILE before the run: missing, or the playlist of an earlier run.
\* fresh: written by this run.
NoFile == [exists |-> FALSE, fresh |-> FALSE, count |-> 0, entries |-> <<>>]
OldFile == [exists |-> TRUE, fresh |-> FALSE, count |-> 1,
            entries |-> <<[name |-> <<79>>, url |-> U1, logo |-> Str(<<>>)]>>]

\* No listing response is held (before the request, and once the pool runs).
NoResponse == [kind |-> "none", status |-> Raised, links |-> <<>>]

InitRest ==
    /\ main_pc = "start"
    /\ response = NoResponse
    /\ pages = <<>>
    /\ submitted = 0
    /\ queue = <<>>
    /\ num_threads = 0
    /\ pc = <<>>
    /\ extracted = <<>>
    /\ trace = <<>>
    /\ result = <<>>
    /\ completed_count = 0
    /\ valid_channels = <<>>
    /\ channels = <<>>
    /\ generated = FALSE
    /\ report = "none"

Init == web = "open" /\ file \in {NoFile, OldFile} /\ InitRest

InitCrowded == web = "crowded" /\ file = OldFile /\ InitRest

InitQuiet == web = "quiet" /\ file = NoFile /\ InitRest

Candidates == 1..Len(pages)

(* ----------------------------- main thread ---------------------------- *)

\* Lines 146 and 37-39: get_working_channels calls get_channel_links, whose
\* session.get(BASE_URL) answers or raises.
session_get_listing ==
    /\ main_pc = "start"
    /\ response' \in ListingOutcomes(web)
    /\ main_pc' = "links"
    /\ UNCHANGED <<web, pages>>
    /\ UNCHANGED poolVars
    /\ UNCHANGED mainVars

\* Lines 40-69 and 146: raise_for_status, the parse and the return into pages.
get_channel_links ==
    /\ main_pc = "links"
    /\ pages' = links_result(response)
    /\ pc' = [i \in 1..Len(pages') |-> "unsubmitted"]
    /\ extracted' = [i \in 1..Len(pages') |-> <<>>]
    /\ trace' = [i \in 1..Len(pages') |-> <<>>]
    /\ result' = [i \in 1..Len(pages') |-> <<>>]
    /\ main_pc' = "pages"
    /\ UNCHANGED <<web, response, submitted, queue, num_threads, completed_count,
                   valid_channels>>
    /\ UNCHANGED mainVars

\* Lines 149-151: the progress line, and the executor is created.
executor_enter ==
    /\ main_pc = "pages"
    /\ response' = NoResponse
    /\ main_pc' = "pool"
    /\ UNCHANGED <<web, pages>>
    /\ UNCHANGED poolVars
    /\ UNCHANGED mainVars

\* Mutant of max_workers: the pool is one thread larger than MAX_THREADS.
max_workers_one_more == MAX_THREADS + 1

\* Line 151: ThreadPoolExecutor(max_workers=MAX_THREADS).
max_workers == MAX_THREADS

\* Calls of process_channel that a worker thread is running.
InProgress == {i \in Candidates : pc[i] \in {"fetch", "head", "get"}}

\* Line 153, one executor.submit(process_channel, page): the work item joins
\* the queue, and the executor starts another worker thread unless it already
\* has max_workers of them.
submit ==
    /\ main_pc = "pool"
    /\ submitted < Len(pages)
    /\ submitted' = submitted + 1
    /\ queue' = Append(queue, submitted + 1)
    /\ pc' = [pc EXCEPT ![submitted + 1] = "queued"]
    /\ num_threads' = IF num_threads < max_workers THEN num_threads + 1 ELSE num_threads
    /\ UNCHANGED <<web, main_pc, response, pages, extracted, trace, result, completed_count,
                   valid_channels>>
    /\ UNCHANGED mainVars

(* ---------------------------- worker threads -------------------------- *)

\* A worker thread that is running nothing takes the oldest work item and
\* calls process_channel(page): lines 78-82, up to the detail request.
worker_start(i) ==
    /\ queue # <<>>
    /\ i = Head(queue)
    /\ Cardinality(InProgress) < num_threads
    /\ queue' = Tail(queue)
    /\ pc' = [pc EXCEPT ![i] = "fetch"]
    /\ UNCHANGED <<web, main_pc, response, pages, submitted, num_threads, extracted, trace, result,
                   completed_count, valid_channels>>
    /\ UNCHANGED mainVars

\* Lines 88-110: m3u8 and logo, from channelData when it parses, else from
\* the fallback regexes.
extract(body) ==
    LET m3u8_json == IF body.cd = "dict" THEN body.m3u8 ELSE None
        logo_json == IF body.cd = "dict"
                     THEN Or(Or(body.logo, body.image), body.poster)
                     ELSE None
        m3u8 == IF ~Truthy(m3u8_json) /\ body.raw_m3u8 # None
                THEN Str(Unescape(body.raw_m3u8.v))
                ELSE m3u8_json
        logo == IF ~Truthy(logo_json) /\ body.raw_logo # None
                THEN Str(Unescape(body.raw_logo.v))
                ELSE logo_json
    IN  [m3u8 |-> m3u8, logo |-> logo]

\* Mutant of should_probe: the startswith('http') test is left out.
should_probe_any_str(e) == Truthy(e.m3u8) /\ e.m3u8.t = "str"

\* Line 113: m3u8 and m3u8.startswith('http').
should_probe(e) == Truthy(e.m3u8) /\ e.m3u8.t = "str" /\ StartsWithHttp(e.m3u8.v)

\* Line 113 on a truthy m3u8 that is no str: it has no startswith, and the
\* AttributeError leaves the try block of line 81.
startswith_raises(e) == Truthy(e.m3u8) /\ e.m3u8.t # "str"

\* Mutant of after_exception: no handler, the exception leaves process_channel.
after_exception_propagates == "failed"

\* Lines 142-143: except Exception: return None.  Where the call goes when
\* lines 82-140 raise: "finished" (it returns None) or "failed" (the future
\* holds the exception).
after_exception == "finished"

\* Mutant of is_working: client errors count as working (status_code < 500).
is_working_below_500(outcome) == outcome # Raised /\ outcome < 500

\* Lines 117 and 130: stream_check.status_code < 400, of a probe that answered.
is_working(outcome) == outcome # Raised /\ outcome < 400

\* Mutant of channel_of: 'logo': logo, without the  or "".
channel_of_raw_logo(name, e) == [name |-> name, url |-> e.m3u8.v, logo |-> e.logo]

\* Lines 118-122 and 132-136.
channel_of(name, e) == [name |-> name, url |-> e.m3u8.v, logo |-> Or(e.logo, Str(<<>>))]

Request(kind, url, status) == [kind |-> kind, url |-> url, status |-> status]

\* Lines 82-113: the detail page answers (or the request raises); extraction;
\* then either the HEAD probe is sent or process_channel returns None.
process_channel_fetch(i) ==
    /\ pc[i] = "fetch"
    /\ \E r \in DetailOutcomesOf(web, pages[i].page_url) :
         /\ trace' = [trace EXCEPT ![i] = Append(@, Request("detail", pages[i].page_url, r.status))]
         /\ IF r.kind = "raise"
            THEN /\ pc' = [pc EXCEPT ![i] = after_exception]
                 /\ UNCHANGED extracted
            ELSE IF r.status # 200
            THEN /\ pc' = [pc EXCEPT ![i] = "finished"]
                 /\ UNCHANGED extracted
            ELSE /\ extracted' = [extracted EXCEPT ![i] = <<extract(r.body)>>]
                 /\ pc' = [pc EXCEPT ![i] =
                             IF startswith_raises(extract(r.body)) THEN after_exception
                             ELSE IF should_probe(extract(r.body)) THEN "head"
                             ELSE "finished"]
    /\ UNCHANGED <<web, main_pc, response, pages, submitted, queue, num_threads, result,
                   completed_count, valid_channels>>
    /\ UNCHANGED mainVars

\* Lines 115-125: the HEAD probe answers or raises.
process_channel_head(i) ==
    /\ pc[i] = "head"
    /\ \E o \in ProbeOutcomesOf(web, "head") :
         /\ trace' = [trace EXCEPT ![i] = Append(@, Request("head", extracted[i][1].m3u8.v, o))]
         /\ IF is_working(o)
            THEN /\ result' = [result EXCEPT ![i] = <<channel_of(pages[i].name, extracted[i][1])>>]
                 /\ pc' = [pc EXCEPT ![i] = "finished"]
            ELSE /\ pc' = [pc EXCEPT ![i] = "get"]
                 /\ UNCHANGED result
    /\ UNCHANGED <<web, main_pc, response, pages, submitted, queue, num_threads, extracted,
                   completed_count, valid_channels>>
    /\ UNCHANGED mainVars

\* Mutant of process_channel_get: a failed GET probe starts the probing over.
process_channel_get_retry(i) ==
    /\ pc[i] = "get"
    /\ \E o \in ProbeOutcomesOf(web, "get") :
         IF is_working(o)
         THEN /\ trace' = [trace EXCEPT ![i] = Append(@, Request("get", extracted[i][1].m3u8.v, o))]
              /\ result' = [result EXCEPT ![i] = <<channel_of(pages[i].name, extracted[i][1])>>]
              /\ pc' = [pc EXCEPT ![i] = "finished"]
         ELSE /\ trace' = [trace EXCEPT ![i] = SubSeq(@, 1, 1)]
              /\ pc' = [pc EXCEPT ![i] = "head"]
              /\ UNCHANGED result
    /\ UNCHANGED <<web, main_pc, response, pages, submitted, queue, num_threads, extracted,
                   completed_count, valid_channels>>
    /\ UNCHANGED mainVars

\* Lines 127-140: the GET probe answers or raises, and process_channel returns.
process_channel_get(i) ==
    /\ pc[i] = "get"
    /\ \E o \in ProbeOutcomesOf(web, "get") :
         /\ trace' = [trace EXCEPT ![i] = Append(@, Request("get", extracted[i][1].m3u8.v, o))]
         /\ result' = [result EXCEPT ![i] =
                         IF is_working(o) THEN <<channel_of(pages[i].name, extracted[i][1])>>
                         ELSE <<>>]
    /\ pc' = [pc EXCEPT ![i] = "finished"]
    /\ UNCHANGED <<web, main_pc, response, pages, submitted, queue, num_threads, extracted,
                   completed_count, valid_channels>>
    /\ UNCHANGED mainVars

(* ------------------------- main thread, continued --------------------- *)

\* Lines 156-171, one turn of the loop: as_completed hands over a future that
\* is done, in no promised order among those that are.  future.result()
\* returns what process_channel returned, or raises what it raised, and then
\* the exception leaves get_working_channels and ends the script.
as_completed(i) ==
    /\ main_pc = "pool"
    /\ submitted = Len(pages)
    /\ pc[i] \in {"finished", "failed"}
    /\ completed_count' = completed_count + 1
    /\ IF pc[i] = "failed"
       THEN /\ main_pc' = "crashed"
            /\ UNCHANGED <<valid_channels, pc>>
       ELSE /\ valid_channels' = IF result[i] # <<>> THEN Append(valid_channels, result[i][1])
                                 ELSE valid_channels
            /\ pc' = [pc EXCEPT ![i] = "collected"]
            /\ UNCHANGED main_pc
    /\ UNCHANGED <<web, response, pages, submitted, queue, num_threads, extracted, trace, result>>
    /\ UNCHANGED mainVars

\* Lines 151 (leaving the with block joins the workers), 173 and 218.
get_working_channels_return ==
    /\ main_pc = "pool"
    /\ submitted = Len(pages)
    /\ \A i \in Candidates : pc[i] = "collected"
    /\ num_threads' = 0
    /\ channels' = valid_channels
    /\ main_pc' = "main"
    /\ UNCHANGED <<web, response, pages, submitted, queue, pc, extracted, trace, result,
                   completed_count, valid_channels, file, generated, report>>

\* list.sort(key=lambda x: x['name']): x goes after every element whose name
\* is not greater (the sort is stable).
RECURSIVE Insert(_, _)
Insert(sorted, x) ==
    IF sorted = <<>> THEN <<x>>
    ELSE IF StrLess(x.name, Head(sorted).name) THEN <<x>> \o sorted
    ELSE <<Head(sorted)>> \o Insert(Tail(sorted), x)

\* Mutant of sort_by_name: the list is written as collected.
sort_by_name_skipped(cs) == cs

RECURSIVE sort_by_name(_)
sort_by_name(cs) ==
    IF cs = <<>> THEN <<>>
    ELSE Insert(sort_by_name(SubSeq(cs, 1, Len(cs) - 1)), cs[Len(cs)])

\* Mutant of has_channels: if channels is not None.
has_channels_not_none(cs) == TRUE

\* Line 220: if channels.
has_channels(cs) == cs # <<>>

\* Lines 220-221 and 175-212: generate_m3u(channels).  Opening the file may
\* fail (nothing is touched); a write may fail after the list is sorted and k
\* entries are out; either way the exception ends the script.
generate_m3u ==
    /\ main_pc = "main"
    /\ has_channels(channels)
    /\ generated' = TRUE
    /\ \/ /\ channels' = sort_by_name(channels)
          /\ file' = [exists |-> TRUE, fresh |-> TRUE, count |-> Len(channels),
                       entries |-> channels']
          /\ report' = "Success! Generated"
          /\ main_pc' = "done"
       \/ /\ UNCHANGED <<channels, file, report>>
          /\ main_pc' = "crashed"
       \/ /\ channels' = sort_by_name(channels)
          /\ \E k \in 0..(Len(channels) - 1) :
               file' = [exists |-> TRUE, fresh |-> TRUE, count |-> Len(channels),
                        entries |-> SubSeq(channels', 1, k)]
          /\ UNCHANGED report
          /\ main_pc' = "crashed"
    /\ UNCHANGED <<web, response, pages>>
    /\ UNCHANGED poolVars

\* Lines 222-225.
no_channels ==
    /\ main_pc = "main"
    /\ ~has_channels(channels)
    /\ report' = "No working channels found."
    /\ main_pc' = "done"
    /\ UNCHANGED <<web, response, pages, channels, file, generated>>
    /\ UNCHANGED poolVars

(* --------------------------- specifications --------------------------- *)

Next ==
    \/ session_get_listing
    \/ get_channel_links
    \/ executor_enter
    \/ submit
    \/ \E i \in Candidates : worker_start(i)
    \/ \E i \in Candidates : process_channel_fetch(i)
    \/ \E i \in Candidates : process_channel_head(i)
    \/ \E i \in Candidates : process_channel_get(i)
    \/ \E i \in Candidates : as_completed(i)
    \/ get_working_channels_return
    \/ generate_m3u
    \/ no_channels

Spec == Init /\ [][Next]_vars

\* The same program on the crowded web.
SpecCrowded == InitCrowded /\ [][Next]_vars

\* The program on the quiet web under fair scheduling: a step that can be taken (a response or
\* timeout of a pending request, a worker picking up work, the main thread's
\* next statement) is eventually taken.
SpecFair == InitQuiet /\ [][Next]_vars /\ WF_vars(Next)

(* ------------------------------- claims ------------------------------- *)

Returned == main_pc \in {"main", "done", "crashed"}

Over(i) == pc[i] \in {"finished", "collected"}

\* The requests of candidate i, by kind.
Requests(i, kind) == {k \in 1..Len(trace[i]) : trace[i][k].kind = kind}

\* A probe of url answered below 400 during this run.
ProbedLive(url) ==
    \E i \in Candidates : \E k \in 1..Len(trace[i]) :
        /\ trace[i][k].kind \in {"head", "get"}
        /\ trace[i][k].url = url
        /\ trace[i][k].status # Raised
        /\ trace[i][k].status < 400

Live(ch) == ch.url # <<>> /\ ch.url[1] \in {"http:", "https:"} /\ ProbedLive(ch.url)

\* Both probes of candidate i were made and neither answered below 400.
BothProbesFailed(i) ==
    /\ Requests(i, "head") # {} /\ Requests(i, "get") # {}
    /\ \A k \in Requests(i, "head") \cup Requests(i, "get") :
           trace[i][k].status = Raised \/ trace[i][k].status >= 400

\* C1: every channel process_channel returns, every channel collected into
\* valid_channels and every channel generate_m3u writes has a non-empty http
\* stream URL that a HEAD or GET probe of this run answered below 400; a
\* candidate whose HEAD and GET probes both failed yields None.
C1_OnlyLiveChannels ==
    /\ \A i \in Candidates : result[i] # <<>> => Live(result[i][1])
    /\ \A k \in 1..Len(valid_channels) : Live(valid_channels[k])
    /\ file.fresh => \A k \in 1..Len(file.entries) : Live(file.entries[k])
    /\ \A i \in Candidates : Over(i) /\ BothProbesFailed(i) => result[i] = <<>>

\* A playlist was written with a channel that only the GET probe found live,
\* while another candidate failed both probes.
C1_Witness ==
    /\ file.fresh /\ file.entries # <<>>
    /\ \E i \in Candidates :
          /\ result[i] # <<>> /\ Requests(i, "get") # {}
          /\ \E k \in 1..Len(file.entries) : file.entries[k] = result[i][1]
    /\ \E i \in Candidates : Over(i) /\ BothProbesFailed(i)

\* The HEAD probe of candidate i failed and its GET probe answered below 400.
HeadFailedGetWorked(i) ==
    /\ Len(trace[i]) = 3
    /\ trace[i][1].kind = "detail" /\ trace[i][1].status = 200
    /\ trace[i][2].kind = "head"
    /\ trace[i][2].status = Raised \/ trace[i][2].status >= 400
    /\ trace[i][3].kind = "get"
    /\ trace[i][3].status # Raised /\ trace[i][3].status < 400

\* C2: when the detail page answered 200 with an http stream URL, the HEAD
\* probe failed (raised or >= 400) and the GET probe answered below 400,
\* process_channel returns the channel with the candidate's name, the
\* extracted stream URL and the extracted logo, "" when none was found.
C2_GetFallbackHonored ==
    \A i \in Candidates :
        Over(i) /\ HeadFailedGetWorked(i) =>
            /\ result[i] # <<>>
            /\ result[i][1].name = pages[i].name
            /\ result[i][1].url = extracted[i][1].m3u8.v
            /\ result[i][1].logo =
                  IF Truthy(extracted[i][1].logo) THEN extracted[i][1].logo ELSE Str(<<>>)

\* HEAD answered 404, GET answered 200, and no logo was found.
C2_Witness ==
    \E i \in Candidates :
        /\ Over(i) /\ HeadFailedGetWorked(i)
        /\ trace[i][2].status = 404 /\ trace[i][3].status = 200
        /\ ~Truthy(extracted[i][1].logo)
        /\ result[i] # <<>> /\ result[i][1].logo = Str(<<>>)

\* Number of places of sequence s that hold x.
Count(s, x) == Cardinality({k \in 1..Len(s) : s[k] = x})

\* C3: process_channel never raises into the pool; no candidate is validated
\* twice; and when get_working_channels has returned, every candidate was
\* validated once and collected, and valid_channels holds exactly the
\* non-None results, each as often as candidates returned it.
C3_FailureIsolation ==
    /\ \A i \in Candidates : pc[i] # "failed"
    /\ \A i \in Candidates : Cardinality(Requests(i, "detail")) <= 1
    /\ main_pc # "crashed" \/ generated
    /\ Returned =>
          /\ \A i \in Candidates : pc[i] = "collected" /\ Cardinality(Requests(i, "detail")) = 1
          /\ completed_count = Len(pages)
          /\ Len(valid_channels) = Cardinality({i \in Candidates : result[i] # <<>>})
          /\ \A i \in Candidates : result[i] # <<>> =>
                Count(valid_channels, result[i][1]) =
                    Cardinality({j \in Candidates : result[j] = result[i]})

\* get_working_channels returned one channel although the other candidate's
\* detail request raised.
C3_Witness ==
    /\ Returned
    /\ Len(valid_channels) = 1
    /\ \E i \in Candidates : trace[i] # <<>> /\ trace[i][1].status = Raised
    /\ \E i \in Candidates : result[i] # <<>>

\* C4: the entries generate_m3u writes are in non-decreasing order of name,
\* names compared as Python compares str (by code point, case-sensitive).
C4_WrittenInNameOrder ==
    file.fresh =>
        \A j, k \in 1..Len(file.entries) :
            j < k => ~StrLess(file.entries[k].name, file.entries[j].name)

\* Two channels were collected in descending name order and written ascending.
C4_Witness ==
    /\ file.fresh /\ Len(file.entries) = 2
    /\ Len(valid_channels) = 2
    /\ StrLess(valid_channels[2].name, valid_channels[1].name)
    /\ file.entries = <<valid_channels[2], valid_channels[1]>>

\* The channels in the order of their candidates: what valid_channels holds
\* when the futures are collected in submission order.
RECURSIVE InSubmissionOrder(_)
InSubmissionOrder(n) ==
    IF n = 0 THEN <<>>
    ELSE InSubmissionOrder(n - 1) \o result[n]

\* C5: for fixed candidates with fixed validation outcomes the written
\* channel sequence is the same for every completion order, also when
\* validated channels share a name: every run writes what the run that
\* collects the futures in submission order writes.
C5_OutputDeterministic ==
    main_pc = "done" /\ file.fresh =>
        file.entries = sort_by_name(InSubmissionOrder(Len(pages)))

\* get_text(strip=True), with the placeholder for an empty name.
NameOfText(text) ==
    LET t == Strip(text) IN IF t = <<>> THEN DEFAULT_NAME ELSE t

\* The absolute URL of an href.
Resolved(href) ==
    IF href # <<>> /\ href[1] \in {"http:", "https:"} THEN href ELSE BASE_PREFIX \o href

\* The places of the listing's links whose href holds the player-page marker.
Matching(links) ==
    {k \in 1..Len(links) : \E j \in 1..Len(links[k].href) : links[k].href[j] = "ptest.php"}

\* C6: get_channel_links returns no two candidates with the same resolved
\* URL, exactly one candidate for each distinct resolved URL among the links
\* whose href holds the marker, and for a duplicated URL the name of the last
\* link seen with that URL.
C6_UniqueLastSeenWins ==
    main_pc = "pages" /\ response.kind = "resp" /\ response.status < 400 =>
        LET links == response.links
            urls == {Resolved(links[k].href) : k \in Matching(links)}
        IN  /\ \A i, j \in Candidates : i # j => pages[i].page_url # pages[j].page_url
            /\ {pages[i].page_url : i \in Candidates} = urls
            /\ Len(pages) = Cardinality(urls)
            /\ \A i \in Candidates :
                  \E k \in Matching(links) :
                      /\ Resolved(links[k].href) = pages[i].page_url
                      /\ \A m \in Matching(links) :
                            Resolved(links[m].href) = pages[i].page_url => m <= k
                      /\ pages[i].name = NameOfText(links[k].text)

\* Three links, two of them matching with distinct URLs, the third a
\* duplicate of the first under another name: two candidates, the first
\* carrying the third link's name.
C6_Witness ==
    /\ main_pc = "pages" /\ response.kind = "resp" /\ response.status < 400
    /\ Len(response.links) = 3 /\ Matching(response.links) = {1, 2, 3}
    /\ Resolved(response.links[1].href) # Resolved(response.links[2].href)
    /\ Resolved(response.links[3].href) = Resolved(response.links[1].href)
    /\ response.links[3].href # response.links[1].href
    /\ NameOfText(response.links[3].text) # NameOfText(response.links[1].text)
    /\ Len(pages) = 2
    /\ pages[1].name = NameOfText(response.links[3].text)

\* C7: a run that ends with no validated channel never calls generate_m3u,
\* leaves the output file as it was, reports "No working channels found."
\* and finishes normally; a failed listing fetch (it raised, or an error
\* status) becomes an empty candidate list and never an exception.
C7_NoChannelsNoPlaylist ==
    /\ main_pc \in {"done", "crashed"} /\ valid_channels = <<>> =>
          /\ ~generated
          /\ ~file.fresh /\ file \in {NoFile, OldFile}
          /\ report = "No working channels found."
          /\ main_pc = "done"
    /\ main_pc \notin {"start", "links"} /\ response # NoResponse
          /\ (response.kind = "raise" \/ response.status >= 400) => pages = <<>>
    /\ main_pc = "crashed" => generated

\* Two candidates, both validated to None, the old playlist still in place.
C7_Witness ==
    /\ main_pc = "done" /\ valid_channels = <<>>
    /\ Len(pages) = 2
    /\ \E i \in Candidates : BothProbesFailed(i)
    /\ file = OldFile
    /\ report = "No working channels found."

\* C10: a candidate's requests are the detail request, then at most one HEAD
\* probe, then at most one GET probe; a probe is made only after the detail
\* page answered 200 and an http stream URL was extracted, and it probes that
\* URL; the GET probe is made only after the HEAD probe raised or answered
\* >= 400; a HEAD probe that answered below 400 ends the call with a channel.
C10_ProbeOrdering ==
    \A i \in Candidates :
        LET t == trace[i] IN
        /\ Len(t) <= 3
        /\ \A k \in 1..Len(t) : t[k].kind = <<"detail", "head", "get">>[k]
        /\ pc[i] = "head" => Len(t) = 1
        /\ pc[i] = "get" => Len(t) = 2
        /\ Len(t) >= 2 \/ pc[i] \in {"head", "get"} =>
              /\ t[1].status = 200
              /\ extracted[i] # <<>>
              /\ extracted[i][1].m3u8.t = "str"
              /\ extracted[i][1].m3u8.v # <<>>
              /\ extracted[i][1].m3u8.v[1] \in {"http:", "https:"}
              /\ \A k \in 2..Len(t) : t[k].url = extracted[i][1].m3u8.v
        /\ Len(t) = 3 \/ pc[i] = "get" => t[2].status = Raised \/ t[2].status >= 400
        /\ Len(t) >= 2 /\ t[2].status # Raised /\ t[2].status < 400 =>
              Len(t) = 2 /\ Over(i) /\ result[i] # <<>>

\* One candidate ended after HEAD answered 302, another went on to GET after
\* HEAD answered 404.
C10_Witness ==
    /\ \E i \in Candidates : Over(i) /\ Len(trace[i]) = 2 /\ trace[i][2].status = 302
    /\ \E i \in Candidates : Len(trace[i]) = 3 /\ trace[i][2].status = 404

\* C8: under fair scheduling get_working_channels eventually returns, and
\* when it returns every candidate has been submitted and has run to
\* completion, none is left queued or running, and completed_count is the
\* number of candidates.
C8_Termination ==
    /\ <>(main_pc = "main")
    /\ [](main_pc = "main" =>
            /\ submitted = Len(pages)
            /\ queue = <<>>
            /\ \A i \in Candidates : pc[i] = "collected"
            /\ completed_count = Len(pages))

\* get_working_channels returned after three candidates, one of which needed
\* all three requests and one of which failed at the detail request.
C8_Witness ==
    /\ main_pc = "main"
    /\ Len(pages) = 3 /\ completed_count = 3
    /\ \E i \in Candidates : Len(trace[i]) = 3
    /\ \E i \in Candidates : trace[i][1].status = Raised

\* C9: at most MAX_THREADS calls of process_channel are in progress at any
\* time, however many candidates were submitted.
C9_BoundedWorkers == Cardinality(InProgress) <= MAX_THREADS

\* More candidates than workers were submitted: MAX_THREADS calls are in
\* progress and a candidate waits in the queue.
C9_Witness ==
    /\ Len(pages) > MAX_THREADS
    /\ submitted = Len(pages)
    /\ Cardinality(InProgress) = MAX_THREADS
    /\ queue # <<>>

====
